---- MODULE Spec2Model ----
(***************************************************************************)
(* Model of the profile switcher extension: the directory-profile resolver *)
(* (settingsManager.ts), the profile applier and the profile enumeration   *)
(* (profileManager.ts).                                                    *)
(*                                                                         *)
(* Strings are sequences of one-character strings, so that startsWith,     *)
(* endsWith, replace, length and sort are computed character by character. *)
(* Absolute paths are sequences of segments (each segment a string).       *)
(***************************************************************************)
EXTENDS Integers, Sequences, FiniteSets, TLC

VARIABLES
    settingsFile,   \* content of <workspace>/.vscode/settings.json
    filePath,       \* absolute path handed to the resolver (segments)
    sep,            \* the host's path separator (path.sep)
    pcR,            \* position of the getProfileForPath call
    bestMatch,      \* getProfileForPath's local bestMatch at its return
    result,         \* value returned by getProfileForPath
    userDataPath,   \* what getVSCodeUserDataPath finds: a path or null
    storageJson,    \* content of User/globalStorage/storage.json
    profilesDir,    \* the directory User/profiles
    pc,             \* position of each switchToProfile call
    target,         \* profileName of each switchToProfile call
    profileId,      \* what getProfileIdFromName returned to the call
    approaches,     \* the call's list of approaches (the command's argument)
    idx,            \* position of the call's loop in approaches
    calls,          \* the call's host invocations, oldest first
    ret,            \* how the call ended
    pcE,            \* position of the getAvailableProfiles call
    enumResult,     \* how getAvailableProfiles ended
    caller,         \* which routine made each switchToProfile call
    prompt,         \* what that routine showed the user once the call returned
    lastSwitch,     \* the host invocation that completed without error last
    workspaceFolders, \* vscode.workspace.workspaceFolders
    folderConfig,   \* the profileSwitcher configuration of the folders other than WorkspacePath
    activeEditor,   \* the file of vscode.window.activeTextEditor, or NoEditor
    autoSwitch,     \* current value of the profileSwitcher.autoSwitch setting
    config,         \* autoSwitch in the configuration object activate() captured
    lastEvent,      \* the event fired last and what its handler did
    writes          \* the writes to settings.json so far, oldest first

resolverVars == <<settingsFile, filePath, sep, pcR, bestMatch, result>>
hostFsVars == <<userDataPath, storageJson, profilesDir>>
switchVars == <<pc, target, profileId, approaches, idx, calls, ret>>
enumVars == <<pcE, enumResult>>
callerVars == <<caller, prompt>>
eventVars == <<workspaceFolders, folderConfig, activeEditor, autoSwitch, config, lastEvent>>
appVars == <<callerVars, lastSwitch, eventVars, writes>>

vars == <<resolverVars, hostFsVars, switchVars, enumVars, appVars>>

-----------------------------------------------------------------------------
(* Bounds *)

MaxEntries == 2
NumCalls == 2
MaxDirEntries == 2
MaxRegistry == 2
MaxEvents == 2

-----------------------------------------------------------------------------
(* JavaScript values *)

Undefined == <<"<undefined>">>
Null == <<"<null>">>

\* JS truthiness of a string | undefined | null
Truthy(v) == v # Undefined /\ v # Null /\ v # <<>>

Slash == "/"
Backslash == "\\"

\* s.endsWith('/')
EndsWithSlash(s) == Len(s) > 0 /\ s[Len(s)] = Slash

\* mutant: s.includes(p) in place of s.startsWith(p)
StartsWith_Includes(s, p) ==
    \E k \in 0..(Len(s) - Len(p)) : SubSeq(s, k + 1, k + Len(p)) = p

\* s.startsWith(p)
StartsWith(s, p) == Len(p) <= Len(s) /\ SubSeq(s, 1, Len(p)) = p

\* mutant: the separators are left as the host delivers them
ReplaceBackslashes_Kept(s) == s

\* s.replace(/\\/g, '/')
ReplaceBackslashes(s) == [i \in 1..Len(s) |-> IF s[i] = Backslash THEN Slash ELSE s[i]]

-----------------------------------------------------------------------------
(* path.relative(from, to) for absolute, normalized paths *)

RECURSIVE CommonLen(_, _, _)
CommonLen(from, to, n) ==
    IF n < Len(from) /\ n < Len(to) /\ from[n + 1] = to[n + 1]
    THEN CommonLen(from, to, n + 1)
    ELSE n

DotDot == <<".", ".">>

RECURSIVE Join(_, _)
Join(segs, s) ==
    IF Len(segs) = 0 THEN <<>>
    ELSE IF Len(segs) = 1 THEN segs[1]
    ELSE segs[1] \o <<s>> \o Join(Tail(segs), s)

RelativeSegments(from, to) ==
    LET c == CommonLen(from, to, 0)
    IN  [i \in 1..(Len(from) - c) |-> DotDot] \o SubSeq(to, c + 1, Len(to))

PathRelative(from, to, s) == Join(RelativeSegments(from, to), s)

-----------------------------------------------------------------------------
(* settingsManager.ts *)

WorkspacePath == << <<"w">> >>

\* A settings file is missing, unparsable for JSON.parse ("malformed": for
\* instance a file with comments, whose text still holds settings) or "ok".
\* Beside the two profileSwitcher keys it holds the value of one other key.

\* getWorkspaceProfile: undefined when the file is missing or unparsable
GetWorkspaceProfile(file) ==
    IF file.state = "missing" THEN Undefined
    ELSE IF file.state = "malformed" THEN Undefined
    ELSE file.workspaceProfile

\* mutant: the mapping held by the text is used although parsing failed
GetDirectoryProfiles_NoCatch(file) ==
    IF file.state = "missing" THEN <<>>
    ELSE file.directoryProfiles

\* getDirectoryProfiles: {} when the file is missing, unparsable or has no mapping
GetDirectoryProfiles(file) ==
    IF file.state = "missing" THEN <<>>
    ELSE IF file.state = "malformed" THEN <<>>
    ELSE file.directoryProfiles

\* dirPath.endsWith('/') ? dirPath : dirPath + '/'
NormalizeDirPath(dirPath) ==
    IF EndsWithSlash(dirPath) THEN dirPath ELSE dirPath \o <<Slash>>

\* relativePath.replace(/\\/g, '/') + '/'
NormalizeRelativePath(relativePath) == ReplaceBackslashes(relativePath) \o <<Slash>>

NoMatch == [path |-> Undefined, profile |-> Undefined]

\* mutant: the shorter key wins
IsBetter_Shortest(normalizedDirPath, best) ==
    best = NoMatch \/ Len(normalizedDirPath) < Len(best.path)

\* mutant: the entry visited last wins, whatever its length
IsBetter_Last(normalizedDirPath, best) == TRUE

\* !bestMatch || normalizedDirPath.length > bestMatch.path.length
IsBetter(normalizedDirPath, best) ==
    best = NoMatch \/ Len(normalizedDirPath) > Len(best.path)

\* the for loop over Object.entries(directoryProfiles)
RECURSIVE FindBestMatch(_, _, _, _)
FindBestMatch(entries, normalizedRelativePath, i, best) ==
    IF i > Len(entries) THEN best
    ELSE LET normalizedDirPath == NormalizeDirPath(entries[i].dirPath)
             next == IF StartsWith(normalizedRelativePath, normalizedDirPath)
                        /\ IsBetter(normalizedDirPath, best)
                     THEN [path |-> normalizedDirPath, profile |-> entries[i].profile]
                     ELSE best
         IN  FindBestMatch(entries, normalizedRelativePath, i + 1, next)

\* getProfileForPath: the workspace profile is read, but the branch that
\* tests it is empty, so the directory mapping decides alone
BestMatchForPath(file, workspacePath, path, s) ==
    LET workspaceProfile == GetWorkspaceProfile(file)
        directoryProfiles == GetDirectoryProfiles(file)
        relativePath == PathRelative(workspacePath, path, s)
    IN  FindBestMatch(directoryProfiles, NormalizeRelativePath(relativePath), 1, NoMatch)

\* bestMatch?.profile
GetProfileForPath(file, workspacePath, path, s) ==
    BestMatchForPath(file, workspacePath, path, s).profile

-----------------------------------------------------------------------------
(* profileManager.ts: the host's storage *)

DefaultName == <<"D", "e", "f", "a", "u", "l", "t">>
EmptyString == <<>>

\* getVSCodeUserDataPath: the first existing editor directory, or null
GetVSCodeUserDataPath(udp) == udp

\* profileIdToNameMap[profile.location] = profile.name, for the entries that
\* have both; a later entry for the same location overwrites the name in place
RECURSIVE CollectProfiles(_, _, _)
CollectProfiles(userDataProfiles, i, map) ==
    IF i > Len(userDataProfiles) THEN map
    ELSE LET profile == userDataProfiles[i]
             known == { k \in 1..Len(map) : map[k].id = profile.location }
             next == IF ~(Truthy(profile.location) /\ Truthy(profile.name)) THEN map
                     ELSE IF known # {}
                          THEN [k \in 1..Len(map) |->
                                  IF k \in known THEN [id |-> profile.location, name |-> profile.name]
                                  ELSE map[k]]
                          ELSE Append(map, [id |-> profile.location, name |-> profile.name])
         IN  CollectProfiles(userDataProfiles, i + 1, next)

\* getProfileIdToNameMap: {} when there is no user data path, no storage.json
\* or an unparsable one
GetProfileIdToNameMap(udp, storage) ==
    IF GetVSCodeUserDataPath(udp) = Null THEN <<>>
    ELSE IF storage.state = "missing" THEN <<>>
    ELSE IF storage.state = "malformed" THEN <<>>
    ELSE CollectProfiles(storage.userDataProfiles, 1, <<>>)

\* fs.existsSync(path.join(profilesPath, name))
EntryExists(dir, name) ==
    dir.state # "missing" /\ \E k \in 1..Len(dir.entries) : dir.entries[k].name = name

\* fs.statSync(path.join(profilesPath, name)).isDirectory()
EntryIsDirectory(dir, name) ==
    \E k \in 1..Len(dir.entries) : dir.entries[k].name = name /\ dir.entries[k].isDirectory

\* mutant: a name absent from the registry is taken as an identifier unchecked
GetProfileIdFromName_Unchecked(profileName, udp, storage, dir, statThrows) ==
    IF profileName = DefaultName THEN EmptyString
    ELSE LET map == GetProfileIdToNameMap(udp, storage)
             hits == { k \in 1..Len(map) : map[k].name = profileName }
         IN  IF hits # {}
             THEN map[CHOOSE k \in hits : \A h \in hits : k <= h].id
             ELSE profileName

\* getProfileIdFromName: "" for Default, the first registry id whose name is
\* profileName, the name itself when it is a profile directory, else null;
\* an error of statSync is caught and gives null
GetProfileIdFromName(profileName, udp, storage, dir, statThrows) ==
    IF profileName = DefaultName THEN EmptyString
    ELSE LET map == GetProfileIdToNameMap(udp, storage)
             hits == { k \in 1..Len(map) : map[k].name = profileName }
         IN  IF hits # {}
             THEN map[CHOOSE k \in hits : \A h \in hits : k <= h].id
             ELSE IF GetVSCodeUserDataPath(udp) # Null
                     /\ dir.state # "missing"
                     /\ EntryExists(dir, profileName)
                  THEN IF statThrows THEN Null
                       ELSE IF EntryIsDirectory(dir, profileName) THEN profileName
                       ELSE Null
                  ELSE Null

-----------------------------------------------------------------------------
(* profileManager.ts: switchToProfile *)

Calls == 1..NumCalls

\* mutant: the raw name is tried only when no identifier was resolved
BuildApproaches_IdOnly(profileName, id) ==
    IF profileName = DefaultName THEN <<EmptyString, DefaultName>>
    ELSE IF id # Null THEN <<id>>
    ELSE <<profileName>>

\* the approaches array, each approach given by the argument it passes to
\* workbench.action.profiles.switchProfile
BuildApproaches(profileName, id) ==
    IF profileName = DefaultName THEN <<EmptyString, DefaultName>>
    ELSE (IF id # Null THEN <<id>> ELSE <<>>) \o <<profileName>>

\* switchToProfile is entered: it logs and awaits getProfileIdFromName.
\* The calls are numbered in the order in which they are made.
StartSwitch(c, profileName) ==
    /\ pc[c] = "idle"
    /\ \A d \in Calls : d < c => pc[d] # "idle"
    /\ pc' = [pc EXCEPT ![c] = "lookup"]
    /\ target' = [target EXCEPT ![c] = profileName]
    /\ UNCHANGED <<profileId, approaches, idx, calls, ret>>

\* a call of switchToProfile on its own
SwitchToProfile(c, profileName) ==
    /\ StartSwitch(c, profileName)
    /\ UNCHANGED <<resolverVars, hostFsVars, enumVars, appVars>>

\* getProfileIdFromName has returned; the approaches are built and the loop starts
LookupReturns(c) ==
    /\ pc[c] = "lookup"
    /\ \E statThrows \in BOOLEAN :
          LET id == GetProfileIdFromName(target[c], userDataPath, storageJson,
                                         profilesDir, statThrows)
          IN  /\ profileId' = [profileId EXCEPT ![c] = id]
              /\ approaches' = [approaches EXCEPT ![c] = BuildApproaches(target[c], id)]
    /\ idx' = [idx EXCEPT ![c] = 1]
    /\ pc' = [pc EXCEPT ![c] = "loop"]
    /\ UNCHANGED <<target, calls, ret>>
    /\ UNCHANGED <<resolverVars, hostFsVars, enumVars, appVars>>

\* mutant: the host command is started and the loop moves on without awaiting it
InvokeApproach_NoAwait(c) ==
    /\ pc[c] = "loop"
    /\ idx[c] <= Len(approaches[c])
    /\ calls' = [calls EXCEPT ![c] =
                    Append(@, [arg |-> approaches[c][idx[c]], outcome |-> "pending"])]
    /\ idx' = [idx EXCEPT ![c] = @ + 1]
    /\ UNCHANGED <<pc, target, profileId, approaches, ret>>
    /\ UNCHANGED <<resolverVars, hostFsVars, enumVars, appVars>>

\* the loop takes the next approach and awaits the host command
InvokeApproach(c) ==
    /\ pc[c] = "loop"
    /\ idx[c] <= Len(approaches[c])
    /\ calls' = [calls EXCEPT ![c] =
                    Append(@, [arg |-> approaches[c][idx[c]], outcome |-> "pending"])]
    /\ pc' = [pc EXCEPT ![c] = "await"]
    /\ UNCHANGED <<target, profileId, approaches, idx, ret>>
    /\ UNCHANGED <<resolverVars, hostFsVars, enumVars, appVars>>

\* mutant: the loop goes on to the next approach after a success
HostResolves_Continue(c) ==
    /\ pc[c] = "await"
    /\ calls' = [calls EXCEPT ![c][Len(calls[c])].outcome = "ok"]
    /\ lastSwitch' = [call |-> c, arg |-> calls[c][Len(calls[c])].arg]
    /\ idx' = [idx EXCEPT ![c] = @ + 1]
    /\ pc' = [pc EXCEPT ![c] = "loop"]
    /\ UNCHANGED <<target, profileId, approaches, ret>>
    /\ UNCHANGED <<resolverVars, hostFsVars, enumVars, callerVars, eventVars, writes>>

\* the host command completes without error: the call waits the grace delay
HostResolves(c) ==
    /\ pc[c] = "await"
    /\ calls' = [calls EXCEPT ![c][Len(calls[c])].outcome = "ok"]
    /\ lastSwitch' = [call |-> c, arg |-> calls[c][Len(calls[c])].arg]
    /\ pc' = [pc EXCEPT ![c] = "grace"]
    /\ UNCHANGED <<target, profileId, approaches, idx, ret>>
    /\ UNCHANGED <<resolverVars, hostFsVars, enumVars, callerVars, eventVars, writes>>

\* mutant: no try around the approach, the error reaches the outer catch
HostRejects_Abort(c) ==
    /\ pc[c] = "await"
    /\ calls' = [calls EXCEPT ![c][Len(calls[c])].outcome = "err"]
    /\ ret' = [ret EXCEPT ![c] = "false"]
    /\ pc' = [pc EXCEPT ![c] = "done"]
    /\ UNCHANGED <<target, profileId, approaches, idx>>
    /\ UNCHANGED <<resolverVars, hostFsVars, enumVars, appVars>>

\* the host command fails: the error is caught and the loop continues
HostRejects(c) ==
    /\ pc[c] = "await"
    /\ calls' = [calls EXCEPT ![c][Len(calls[c])].outcome = "err"]
    /\ idx' = [idx EXCEPT ![c] = @ + 1]
    /\ pc' = [pc EXCEPT ![c] = "loop"]
    /\ UNCHANGED <<target, profileId, approaches, ret>>
    /\ UNCHANGED <<resolverVars, hostFsVars, enumVars, appVars>>

\* the grace delay after a success has elapsed: return true
GraceElapsed(c) ==
    /\ pc[c] = "grace"
    /\ ret' = [ret EXCEPT ![c] = "true"]
    /\ pc' = [pc EXCEPT ![c] = "done"]
    /\ UNCHANGED <<target, profileId, approaches, idx, calls>>
    /\ UNCHANGED <<resolverVars, hostFsVars, enumVars, appVars>>

\* every approach failed: return false
AllApproachesFailed(c) ==
    /\ pc[c] = "loop"
    /\ idx[c] > Len(approaches[c])
    /\ ret' = [ret EXCEPT ![c] = "false"]
    /\ pc' = [pc EXCEPT ![c] = "done"]
    /\ UNCHANGED <<target, profileId, approaches, idx, calls>>
    /\ UNCHANGED <<resolverVars, hostFsVars, enumVars, appVars>>

-----------------------------------------------------------------------------
(* profileManager.ts: getAvailableProfiles *)

\* UTF-16 code unit of a character
CharCode(ch) ==
    CASE ch = "." -> 46
      [] ch = "1" -> 49
      [] ch = "2" -> 50
      [] ch = "A" -> 65
      [] ch = "D" -> 68
      [] ch = "P" -> 80
      [] ch = "W" -> 87
      [] ch = "a" -> 97
      [] ch = "c" -> 99
      [] ch = "e" -> 101
      [] ch = "f" -> 102
      [] ch = "h" -> 104
      [] ch = "i" -> 105
      [] ch = "l" -> 108
      [] ch = "t" -> 116
      [] ch = "u" -> 117

\* a < b as Array.prototype.sort compares strings: by code units, a proper
\* prefix first
RECURSIVE StringLess(_, _)
StringLess(a, b) ==
    IF Len(b) = 0 THEN FALSE
    ELSE IF Len(a) = 0 THEN TRUE
    ELSE IF CharCode(a[1]) < CharCode(b[1]) THEN TRUE
    ELSE IF CharCode(a[1]) > CharCode(b[1]) THEN FALSE
    ELSE StringLess(Tail(a), Tail(b))

RECURSIVE InsertSorted(_, _)
InsertSorted(sorted, x) ==
    IF Len(sorted) = 0 THEN <<x>>
    ELSE IF StringLess(x, sorted[1]) THEN <<x>> \o sorted
    ELSE <<sorted[1]>> \o InsertSorted(Tail(sorted), x)

\* profiles.sort()
RECURSIVE SortProfiles(_)
SortProfiles(profiles) ==
    IF Len(profiles) = 0 THEN <<>>
    ELSE InsertSorted(SortProfiles(SubSeq(profiles, 1, Len(profiles) - 1)),
                      profiles[Len(profiles)])

\* profiles.includes(name)
Includes(profiles, name) == \E k \in 1..Len(profiles) : profiles[k] = name

\* profileIdToNameMap[profileId] || profileId
NameOfId(map, id) ==
    IF \E k \in 1..Len(map) : map[k].id = id
    THEN (CHOOSE e \in { map[k] : k \in 1..Len(map) } : e.id = id).name
    ELSE id

\* the loop over the directory entries: the directories that are neither
\* hidden nor "cache", under their registered name
RECURSIVE ListProfiles(_, _, _, _)
ListProfiles(entries, map, i, profiles) ==
    IF i > Len(entries) THEN profiles
    ELSE LET entry == entries[i]
             next == IF /\ entry.isDirectory
                        /\ ~StartsWith(entry.name, <<".">>)
                        /\ entry.name # <<"c", "a", "c", "h", "e">>
                     THEN Append(profiles, NameOfId(map, entry.name))
                     ELSE profiles
         IN  ListProfiles(entries, map, i + 1, next)

\* mutant: the sentinel is not injected
EnsureDefault_Omitted(profiles) == profiles

\* unshift "Default" if absent; push it if the list is still empty
EnsureDefault(profiles) ==
    LET withDefault == IF ~Includes(profiles, DefaultName)
                       THEN <<DefaultName>> \o profiles
                       ELSE profiles
    IN  IF Len(withDefault) = 0 THEN <<DefaultName>> ELSE withDefault

\* the catch block of getAvailableProfilesFromFileSystem
FileSystemCatch(profiles) ==
    IF Len(profiles) = 0 THEN <<DefaultName>> ELSE profiles

\* fs.readdirSync(profilesPath, { withFileTypes: true })
ReaddirSync(dir) ==
    IF dir.state = "unreadable"
    THEN [threw |-> TRUE, entries |-> <<>>]
    ELSE [threw |-> FALSE, entries |-> dir.entries]

\* getAvailableProfilesFromFileSystem: an error of readdirSync is thrown
\* before any profile is collected, and the catch block takes over
GetAvailableProfilesFromFileSystem(udp, storage, dir) ==
    IF GetVSCodeUserDataPath(udp) = Null
    THEN [threw |-> FALSE, value |-> <<DefaultName>>]
    ELSE LET map == GetProfileIdToNameMap(udp, storage)
         IN  IF dir.state # "missing" /\ ReaddirSync(dir).threw
             THEN [threw |-> FALSE, value |-> SortProfiles(FileSystemCatch(<<>>))]
             ELSE LET profiles == IF dir.state # "missing"
                                  THEN ListProfiles(ReaddirSync(dir).entries, map, 1, <<>>)
                                  ELSE <<>>
                  IN  [threw |-> FALSE, value |-> SortProfiles(EnsureDefault(profiles))]

\* getAvailableProfiles: the file-system list when it is non-empty, else
\* (or when reading it threw) the list holding the sentinel alone
GetAvailableProfiles(udp, storage, dir) ==
    LET fsProfiles == GetAvailableProfilesFromFileSystem(udp, storage, dir)
    IN  IF ~fsProfiles.threw /\ Len(fsProfiles.value) > 0
        THEN [threw |-> FALSE, value |-> fsProfiles.value]
        ELSE [threw |-> FALSE, value |-> SortProfiles(<<DefaultName>>)]

-----------------------------------------------------------------------------
(* settingsManager.ts: the writers *)

\* the settings object a writer starts from: the parsed file, or {} when the
\* file is missing or JSON.parse throws
ReadSettingsOrEmpty(file) ==
    IF file.state = "ok"
    THEN [workspaceProfile |-> file.workspaceProfile,
          directoryProfiles |-> file.directoryProfiles,
          other |-> file.other]
    ELSE [workspaceProfile |-> Undefined, directoryProfiles |-> <<>>, other |-> Undefined]

\* settings[DIRECTORY_PROFILES_KEY][normalizedPath] = profileName
SetEntry(entries, dirPath, profileName) ==
    IF \E k \in 1..Len(entries) : entries[k].dirPath = dirPath
    THEN [k \in 1..Len(entries) |->
            IF entries[k].dirPath = dirPath
            THEN [dirPath |-> dirPath, profile |-> profileName]
            ELSE entries[k]]
    ELSE Append(entries, [dirPath |-> dirPath, profile |-> profileName])

\* updateWorkspaceProfile: the file as written back
UpdateWorkspaceProfile(file, profileName) ==
    LET settings == ReadSettingsOrEmpty(file)
    IN  [state |-> "ok",
         workspaceProfile |-> profileName,
         directoryProfiles |-> settings.directoryProfiles,
         other |-> settings.other]

\* updateDirectoryProfile: the file as written back
UpdateDirectoryProfile(file, relativePath, profileName) ==
    LET settings == ReadSettingsOrEmpty(file)
        normalizedPath == IF EndsWithSlash(relativePath) THEN relativePath
                          ELSE relativePath \o <<Slash>>
    IN  [state |-> "ok",
         workspaceProfile |-> settings.workspaceProfile,
         directoryProfiles |-> SetEntry(settings.directoryProfiles, normalizedPath, profileName),
         other |-> settings.other]

\* getRelativePathFromWorkspace
GetRelativePathFromWorkspace(workspacePath, folderPath, s) ==
    LET relative == PathRelative(workspacePath, folderPath, s)
    IN  ReplaceBackslashes(relative) \o (IF EndsWithSlash(relative) THEN <<>> ELSE <<Slash>>)

-----------------------------------------------------------------------------
(* The commands and what the callers of switchToProfile do with its result *)

\* activate() has run: the commands and the event handlers are registered
Activated == config # "none"

\* the labels of the quick pick: the profiles getAvailableProfiles returns
OfferedProfiles ==
    LET profiles == GetAvailableProfiles(userDataPath, storageJson, profilesDir).value
    IN  { profiles[k] : k \in 1..Len(profiles) }

\* mutant: every caller only logs to the console
PromptAfter_Silent(callerName, switched) == "silent"

\* what each caller shows once switchToProfile has returned
PromptAfter(callerName, switched) ==
    CASE callerName \in {"startupWorkspace", "startupDirectory"} ->
            IF switched THEN "silent" ELSE "warning: Switch Profile"
      [] callerName = "activeFile" -> "silent"
      [] callerName \in {"selectWorkspace", "selectFolder"} ->
            IF switched THEN "information" ELSE "warning: Reload Window"

\* the caller resumes after its await of switchToProfile
CallerResumes(c) ==
    /\ pc[c] = "done"
    /\ caller[c] # "none"
    /\ prompt[c] = "none"
    /\ prompt' = [prompt EXCEPT ![c] = PromptAfter(caller[c], ret[c] = "true")]
    /\ UNCHANGED <<caller, lastSwitch, eventVars, writes>>
    /\ UNCHANGED <<resolverVars, hostFsVars, switchVars, enumVars>>

\* selectProfileForWorkspace, from the pick of a profile on: the profile is
\* stored for the first workspace folder and switchToProfile is called
SelectProfileForWorkspace(c, profileName) ==
    /\ Activated
    /\ lastEvent.seq + Len(writes) < MaxEvents
    /\ \E k \in 1..Len(workspaceFolders) : workspaceFolders[k] = WorkspacePath
    /\ profileName \in OfferedProfiles
    /\ settingsFile' = UpdateWorkspaceProfile(settingsFile, profileName)
    /\ writes' = Append(writes, [kind |-> "workspaceProfile", folder |-> Undefined,
                                 path |-> Undefined, profile |-> profileName])
    /\ StartSwitch(c, profileName)
    /\ caller' = [caller EXCEPT ![c] = "selectWorkspace"]
    /\ UNCHANGED <<filePath, sep, pcR, bestMatch, result>>
    /\ UNCHANGED <<prompt, lastSwitch, eventVars, hostFsVars, enumVars>>

\* selectProfileForFolder from the Explorer context menu, from the pick of a
\* profile on: the folder's relative path is the key of the stored mapping
SelectProfileForFolder(c, folderPath, profileName) ==
    /\ Activated
    /\ lastEvent.seq + Len(writes) < MaxEvents
    /\ \E k \in 1..Len(workspaceFolders) : workspaceFolders[k] = WorkspacePath
    /\ profileName \in OfferedProfiles
    /\ LET relativePath == GetRelativePathFromWorkspace(WorkspacePath, folderPath, sep)
       IN  /\ settingsFile' = UpdateDirectoryProfile(settingsFile, relativePath, profileName)
           /\ writes' = Append(writes, [kind |-> "directoryProfile", folder |-> folderPath,
                                        path |-> relativePath, profile |-> profileName])
    /\ StartSwitch(c, profileName)
    /\ caller' = [caller EXCEPT ![c] = "selectFolder"]
    /\ UNCHANGED <<filePath, sep, pcR, bestMatch, result>>
    /\ UNCHANGED <<prompt, lastSwitch, eventVars, hostFsVars, enumVars>>

\* selectProfileForFolder from the command palette: the path is typed in and
\* accepted when it is non-empty and ends with a separator
SelectProfileForFolderByPath(c, pathInput, profileName) ==
    /\ Activated
    /\ lastEvent.seq + Len(writes) < MaxEvents
    /\ \E k \in 1..Len(workspaceFolders) : workspaceFolders[k] = WorkspacePath
    /\ profileName \in OfferedProfiles
    /\ Len(pathInput) > 0
    /\ EndsWithSlash(ReplaceBackslashes(pathInput))
    /\ LET relativePath == ReplaceBackslashes(pathInput)
       IN  /\ settingsFile' = UpdateDirectoryProfile(settingsFile, relativePath, profileName)
           /\ writes' = Append(writes, [kind |-> "directoryProfile", folder |-> Undefined,
                                        path |-> relativePath, profile |-> profileName])
    /\ StartSwitch(c, profileName)
    /\ caller' = [caller EXCEPT ![c] = "selectFolder"]
    /\ UNCHANGED <<filePath, sep, pcR, bestMatch, result>>
    /\ UNCHANGED <<prompt, lastSwitch, eventVars, hostFsVars, enumVars>>

-----------------------------------------------------------------------------
(* States in which a part of the program has not been used *)

NoResolution ==
    /\ settingsFile = [state |-> "missing", workspaceProfile |-> Undefined,
                       directoryProfiles |-> <<>>, other |-> Undefined]
    /\ filePath = WorkspacePath
    /\ sep = Slash
    /\ pcR = "ready"
    /\ bestMatch = NoMatch
    /\ result = Undefined

NoHostFs ==
    /\ userDataPath = Null
    /\ storageJson = [state |-> "missing", userDataProfiles |-> <<>>]
    /\ profilesDir = [state |-> "missing", entries |-> <<>>]

NoSwitchCalls ==
    /\ pc = [c \in Calls |-> "idle"]
    /\ target = [c \in Calls |-> Undefined]
    /\ profileId = [c \in Calls |-> Undefined]
    /\ approaches = [c \in Calls |-> <<>>]
    /\ idx = [c \in Calls |-> 0]
    /\ calls = [c \in Calls |-> <<>>]
    /\ ret = [c \in Calls |-> "none"]

NoEnumeration ==
    /\ pcE = "ready"
    /\ enumResult = [threw |-> FALSE, value |-> <<>>]

NoSwitch == [call |-> 0, arg |-> Undefined]

NoCallers ==
    /\ caller = [c \in Calls |-> "none"]
    /\ prompt = [c \in Calls |-> "none"]
    /\ lastSwitch = NoSwitch

NoEditor == <<>>
NoEvent == [seq |-> 0, kind |-> "none", ran |-> FALSE, call |-> 0]

NoEvents ==
    /\ workspaceFolders = <<>>
    /\ folderConfig = <<>>
    /\ activeEditor = NoEditor
    /\ autoSwitch = "unset"
    /\ config = "none"
    /\ lastEvent = NoEvent

NoWrites == writes = <<>>

-----------------------------------------------------------------------------
(* Inputs of the resolver *)

KeyUniverse ==
    { <<>>,
      <<"a">>,
      <<"a", "/">>,
      <<"a", "/", "b">>,
      <<"a", "/", "b", "/">>,
      <<"a", "b", "/">>,
      <<".", ".">>,
      <<".", ".", "/">> }

ProfileUniverse == { <<"P", "1">>, <<"P", "2">> }

WorkspaceProfileUniverse == { Undefined, <<>>, <<"W">> }

FileUniverse ==
    { << <<"w">> >>,
      << <<"w">>, <<"x">> >>,
      << <<"w">>, <<"a">>, <<"x">> >>,
      << <<"w">>, <<"a">>, <<"b">>, <<"x">> >>,
      << <<"w">>, <<"a", "b">>, <<"x">> >>,
      << <<"x">> >>,
      << <<"v">>, <<"a">>, <<"x">> >> }

EntryUniverse == [dirPath : KeyUniverse, profile : ProfileUniverse]

\* a JSON object has no two entries with the same key
UniqueKeys(entries) ==
    \A i, j \in 1..Len(entries) : i # j => entries[i].dirPath # entries[j].dirPath

MappingUniverse ==
    UNION { { m \in [1..n -> EntryUniverse] : UniqueKeys(m) } : n \in 0..MaxEntries }

SettingsUniverse ==
    { [state |-> "missing", workspaceProfile |-> Undefined, directoryProfiles |-> <<>>,
       other |-> Undefined] }
    \cup [state : {"ok", "malformed"}, workspaceProfile : WorkspaceProfileUniverse,
          directoryProfiles : MappingUniverse, other : {Undefined}]

-----------------------------------------------------------------------------
(* The resolver as a state machine: one call of getProfileForPath *)

InitResolve ==
    /\ NoCallers
    /\ NoEvents
    /\ NoWrites
    /\ NoHostFs
    /\ NoSwitchCalls
    /\ NoEnumeration
    /\ settingsFile \in SettingsUniverse
    /\ filePath \in FileUniverse
    /\ sep \in {Slash, Backslash}
    /\ pcR = "ready"
    /\ bestMatch = NoMatch
    /\ result = Undefined

CallGetProfileForPath ==
    /\ pcR = "ready"
    /\ bestMatch' = BestMatchForPath(settingsFile, WorkspacePath, filePath, sep)
    /\ result' = GetProfileForPath(settingsFile, WorkspacePath, filePath, sep)
    /\ pcR' = "returned"
    /\ UNCHANGED <<settingsFile, filePath, sep>>
    /\ UNCHANGED <<hostFsVars, switchVars, enumVars, appVars>>

NextResolve == CallGetProfileForPath

SpecResolve == InitResolve /\ [][NextResolve]_vars

-----------------------------------------------------------------------------
(* The applier as a state machine: switchToProfile calls against a host *)

SwitchStorageUniverse ==
    { [state |-> "missing", userDataProfiles |-> <<>>],
      [state |-> "malformed", userDataProfiles |-> <<>>],
      [state |-> "ok", userDataProfiles |-> <<>>],
      [state |-> "ok", userDataProfiles |-> << [location |-> <<"i", "1">>, name |-> <<"W">>] >>],
      [state |-> "ok", userDataProfiles |-> << [location |-> <<>>, name |-> <<"W">>] >>],
      [state |-> "ok", userDataProfiles |-> << [location |-> <<"i", "1">>, name |-> <<"W">>],
                                               [location |-> <<"i", "2">>, name |-> <<"W">>] >>],
      [state |-> "ok", userDataProfiles |-> << [location |-> <<"i", "1">>, name |-> <<"H">>],
                                               [location |-> <<"i", "1">>, name |-> <<"W">>] >>] }

SwitchDirUniverse ==
    { [state |-> "missing", entries |-> <<>>],
      [state |-> "unreadable", entries |-> << [name |-> <<"i", "1">>, isDirectory |-> TRUE] >>],
      [state |-> "ok", entries |-> <<>>],
      [state |-> "ok", entries |-> << [name |-> <<"i", "1">>, isDirectory |-> TRUE] >>],
      [state |-> "ok", entries |-> << [name |-> <<"f">>, isDirectory |-> FALSE] >>] }

TargetUniverse == { DefaultName, <<"W">>, <<"i", "1">>, <<"f">> }

InitSwitch ==
    /\ NoCallers
    /\ NoEvents
    /\ NoWrites
    /\ NoResolution
    /\ NoEnumeration
    /\ NoSwitchCalls
    /\ userDataPath \in {Null, <<"c">>}
    /\ storageJson \in SwitchStorageUniverse
    /\ profilesDir \in SwitchDirUniverse
    /\ userDataPath = Null => (storageJson.state = "missing" /\ profilesDir.state = "missing")

NextSwitch ==
    \E c \in Calls :
        \/ \E profileName \in TargetUniverse : SwitchToProfile(c, profileName)
        \/ LookupReturns(c)
        \/ InvokeApproach(c)
        \/ HostResolves(c)
        \/ HostRejects(c)
        \/ GraceElapsed(c)
        \/ AllApproachesFailed(c)

SpecSwitch == InitSwitch /\ [][NextSwitch]_vars

-----------------------------------------------------------------------------
(* The enumeration as a state machine: one call of getAvailableProfiles *)

RegistryEntryUniverse ==
    [location : { <<"i", "1">>, <<"i", "2">> },
     name : { <<"W">>, DefaultName, <<>> }]

StorageUniverse ==
    { [state |-> "missing", userDataProfiles |-> <<>>],
      [state |-> "malformed", userDataProfiles |-> <<>>] }
    \cup { [state |-> "ok", userDataProfiles |-> r] :
             r \in UNION { [1..n -> RegistryEntryUniverse] : n \in 0..MaxRegistry } }

DirEntryUniverse ==
    { [name |-> <<".", "h">>, isDirectory |-> TRUE],
      [name |-> <<"c", "a", "c", "h", "e">>, isDirectory |-> TRUE],
      [name |-> <<"i", "1">>, isDirectory |-> TRUE],
      [name |-> <<"i", "2">>, isDirectory |-> TRUE],
      [name |-> <<"A">>, isDirectory |-> TRUE],
      [name |-> <<"f">>, isDirectory |-> FALSE] }

\* a directory has no two entries with the same name
UniqueNames(entries) ==
    \A i, j \in 1..Len(entries) : i # j => entries[i].name # entries[j].name

DirListingUniverse ==
    UNION { { d \in [1..n -> DirEntryUniverse] : UniqueNames(d) } : n \in 0..MaxDirEntries }

DirUniverse ==
    { [state |-> "missing", entries |-> <<>>] }
    \cup [state : {"ok", "unreadable"}, entries : DirListingUniverse]

InitEnum ==
    /\ NoCallers
    /\ NoEvents
    /\ NoWrites
    /\ NoResolution
    /\ NoSwitchCalls
    /\ NoEnumeration
    /\ userDataPath \in {Null, <<"c">>}
    /\ storageJson \in StorageUniverse
    /\ profilesDir \in DirUniverse

CallGetAvailableProfiles ==
    /\ pcE = "ready"
    /\ enumResult' = GetAvailableProfiles(userDataPath, storageJson, profilesDir)
    /\ pcE' = "returned"
    /\ UNCHANGED <<resolverVars, hostFsVars, switchVars, appVars>>

NextEnum == CallGetAvailableProfiles

SpecEnum == InitEnum /\ [][NextEnum]_vars

-----------------------------------------------------------------------------
(* extension.ts and profileManager.ts: the events and their apply routines *)

OtherPath == << <<"v">> >>

\* vscode.workspace.getConfiguration('profileSwitcher', folder.uri): the
\* settings of the folder
ConfigurationOf(cfg, file, root) ==
    IF root = WorkspacePath
    THEN [workspaceProfile |-> GetWorkspaceProfile(file),
          directoryProfiles |-> GetDirectoryProfiles(file)]
    ELSE LET k == CHOOSE k \in 1..Len(cfg) : cfg[k].root = root
         IN  [workspaceProfile |-> cfg[k].workspaceProfile,
              directoryProfiles |-> cfg[k].directoryProfiles]

\* vscode.workspace.getWorkspaceFolder(uri): the folder holding the file, or none
GetWorkspaceFolder(folders, file) ==
    LET holding == { k \in 1..Len(folders) :
                        /\ Len(file) > Len(folders[k])
                        /\ SubSeq(file, 1, Len(folders[k])) = folders[k] }
    IN  IF holding = {} THEN Undefined ELSE folders[CHOOSE k \in holding : TRUE]

NoTarget == [caller |-> "none", profile |-> Undefined]

\* the loop over Object.entries(directoryProfiles) of both apply routines
DirectoryTarget(cfg, file, folders, editor, s, callerName) ==
    IF editor = NoEditor THEN NoTarget
    ELSE LET workspaceFolder == GetWorkspaceFolder(folders, editor)
         IN  IF workspaceFolder = Undefined THEN NoTarget
             ELSE LET directoryProfiles ==
                          ConfigurationOf(cfg, file, workspaceFolder).directoryProfiles
                      relativePath ==
                          NormalizeRelativePath(PathRelative(workspaceFolder, editor, s))
                      best == FindBestMatch(directoryProfiles, relativePath, 1, NoMatch)
                  IN  IF best = NoMatch THEN NoTarget
                      ELSE [caller |-> callerName, profile |-> best.profile]

\* applyProfileOnStartup: the profile it calls switchToProfile with, if any
StartupTarget(cfg, file, folders, editor, s) ==
    LET withProfile == { k \in 1..Len(folders) :
                            Truthy(ConfigurationOf(cfg, file, folders[k]).workspaceProfile) }
    IN  IF withProfile # {}
        THEN LET first == CHOOSE k \in withProfile : \A j \in withProfile : k <= j
             IN  [caller |-> "startupWorkspace",
                  profile |-> ConfigurationOf(cfg, file, folders[first]).workspaceProfile]
        ELSE DirectoryTarget(cfg, file, folders, editor, s, "startupDirectory")

\* mutant: the workspace profile of the file's folder is applied again
ActiveFileTarget_Reapplies(cfg, file, folders, editor, s) ==
    LET workspaceFolder == IF editor = NoEditor THEN Undefined
                           ELSE GetWorkspaceFolder(folders, editor)
    IN  IF workspaceFolder # Undefined
           /\ Truthy(ConfigurationOf(cfg, file, workspaceFolder).workspaceProfile)
        THEN [caller |-> "activeFile",
              profile |-> ConfigurationOf(cfg, file, workspaceFolder).workspaceProfile]
        ELSE DirectoryTarget(cfg, file, folders, editor, s, "activeFile")

\* applyProfileForActiveFile: the profile it calls switchToProfile with, if any
ActiveFileTarget(cfg, file, folders, editor, s) ==
    LET workspaceFolder == IF editor = NoEditor THEN Undefined
                           ELSE GetWorkspaceFolder(folders, editor)
    IN  IF workspaceFolder # Undefined
           /\ Truthy(ConfigurationOf(cfg, file, workspaceFolder).workspaceProfile)
        THEN NoTarget
        ELSE DirectoryTarget(cfg, file, folders, editor, s, "activeFile")

\* config.get("autoSwitch", true) on a configuration object
GetAutoSwitch(captured) == captured # "false"

\* an event handler: the apply routine is started, and not awaited, when the
\* captured configuration has autoSwitch on; the routine's synchronous part
\* runs up to the first await inside switchToProfile
RunHandler(kind, enabled, tgt) ==
    /\ lastEvent.seq + Len(writes) < MaxEvents
    /\ IF enabled /\ tgt # NoTarget
       THEN \E c \in Calls :
              /\ StartSwitch(c, tgt.profile)
              /\ caller' = [caller EXCEPT ![c] = tgt.caller]
              /\ lastEvent' = [seq |-> lastEvent.seq + 1, kind |-> kind,
                               ran |-> TRUE, call |-> c]
       ELSE /\ lastEvent' = [seq |-> lastEvent.seq + 1, kind |-> kind,
                             ran |-> enabled, call |-> 0]
            /\ UNCHANGED <<switchVars, caller>>
    /\ UNCHANGED <<prompt, lastSwitch, writes, folderConfig>>
    /\ UNCHANGED <<resolverVars, hostFsVars, enumVars>>

\* activate: the configuration object is captured and the startup apply runs
Activate ==
    /\ ~Activated
    /\ config' = autoSwitch
    /\ RunHandler("startup", GetAutoSwitch(autoSwitch),
                  StartupTarget(folderConfig, settingsFile, workspaceFolders,
                                activeEditor, sep))
    /\ UNCHANGED <<workspaceFolders, activeEditor, autoSwitch>>

\* onDidChangeWorkspaceFolders
WorkspaceFoldersChange(folders) ==
    /\ Activated
    /\ folders # workspaceFolders
    /\ workspaceFolders' = folders
    /\ RunHandler("folders", GetAutoSwitch(config),
                  StartupTarget(folderConfig, settingsFile, folders, activeEditor, sep))
    /\ UNCHANGED <<activeEditor, autoSwitch, config>>

\* onDidChangeActiveTextEditor
ActiveEditorChange(editor) ==
    /\ Activated
    /\ editor # activeEditor
    /\ activeEditor' = editor
    /\ RunHandler("editor", GetAutoSwitch(config),
                  ActiveFileTarget(folderConfig, settingsFile, workspaceFolders, editor, sep))
    /\ UNCHANGED <<workspaceFolders, autoSwitch, config>>

\* the user changes profileSwitcher.autoSwitch in the settings
SetAutoSwitch(value) ==
    /\ value # autoSwitch
    /\ autoSwitch' = value
    /\ UNCHANGED <<workspaceFolders, folderConfig, activeEditor, config, lastEvent>>
    /\ UNCHANGED <<callerVars, lastSwitch, writes>>
    /\ UNCHANGED <<resolverVars, hostFsVars, switchVars, enumVars>>

-----------------------------------------------------------------------------
(* The commands as a state machine: profiles are stored in the settings of   *)
(* the workspace folder, switched to, and files are resolved                 *)

\* an installation with the profiles Default and P1 (registered as i1)
InstalledHost ==
    /\ userDataPath = <<"c">>
    /\ storageJson = [state |-> "ok", userDataProfiles |->
                        << [location |-> <<"i", "1">>, name |-> <<"P", "1">>] >>]
    /\ profilesDir = [state |-> "ok", entries |->
                        << [name |-> <<"i", "1">>, isDirectory |-> TRUE] >>]

StoreMappingUniverse ==
    { <<>>,
      << [dirPath |-> <<"a", "/", "b", "/">>, profile |-> <<"P", "2">>],
         [dirPath |-> <<"b", "/">>, profile |-> <<"P", "1">>] >> }

StoreSettingsUniverse ==
    { [state |-> "missing", workspaceProfile |-> Undefined, directoryProfiles |-> <<>>,
       other |-> Undefined] }
    \cup [state : {"ok", "malformed"}, workspaceProfile : {Undefined, <<"W">>},
          directoryProfiles : StoreMappingUniverse, other : {Undefined, <<"1">>}]

\* the folders of the workspace a mapping is stored for
FolderUniverse ==
    { << <<"w">> >>,
      << <<"w">>, <<"a">> >> }

PathInputUniverse == { <<"a", "/">>, <<"a", "\\">>, <<"a">>, <<>> }

StoreFileUniverse ==
    { << <<"w">>, <<"x">> >>,
      << <<"w">>, <<"a">>, <<"b">>, <<"x">> >> }

InitStore ==
    /\ NoSwitchCalls
    /\ NoEnumeration
    /\ NoCallers
    /\ NoWrites
    /\ InstalledHost
    /\ workspaceFolders = <<WorkspacePath>>
    /\ folderConfig = <<>>
    /\ activeEditor = NoEditor
    /\ autoSwitch = "false"
    /\ config = "false"
    /\ lastEvent = [seq |-> 1, kind |-> "startup", ran |-> FALSE, call |-> 0]
    /\ settingsFile \in StoreSettingsUniverse
    /\ filePath \in StoreFileUniverse
    /\ sep \in {Slash, Backslash}
    /\ pcR = "ready"
    /\ bestMatch = NoMatch
    /\ result = Undefined

NextStore ==
    \/ CallGetProfileForPath
    \/ \E c \in Calls :
        \/ \E profileName \in OfferedProfiles : SelectProfileForWorkspace(c, profileName)
        \/ \E folderPath \in FolderUniverse, profileName \in OfferedProfiles :
              SelectProfileForFolder(c, folderPath, profileName)
        \/ \E pathInput \in PathInputUniverse, profileName \in OfferedProfiles :
              SelectProfileForFolderByPath(c, pathInput, profileName)
        \/ LookupReturns(c)
        \/ InvokeApproach(c)
        \/ HostResolves(c)
        \/ HostRejects(c)
        \/ GraceElapsed(c)
        \/ AllApproachesFailed(c)
        \/ CallerResumes(c)

SpecStore == InitStore /\ [][NextStore]_vars

-----------------------------------------------------------------------------
(* The extension as a state machine: activation, events, commands and the    *)
(* switchToProfile calls they start                                           *)

AppSettingsUniverse ==
    [state : {"ok"}, workspaceProfile : {Undefined, <<"P", "1">>},
     directoryProfiles : { << [dirPath |-> <<"a", "/">>, profile |-> <<"P", "2">>] >> },
     other : {Undefined}]

OtherFolderConfig ==
    << [root |-> OtherPath, workspaceProfile |-> Undefined,
        directoryProfiles |-> << [dirPath |-> <<"a", "/">>, profile |-> DefaultName] >>] >>

FolderSetUniverse == { <<WorkspacePath>>, <<WorkspacePath, OtherPath>> }

EditorUniverse ==
    { NoEditor,
      << <<"w">>, <<"x">> >>,
      << <<"w">>, <<"a">>, <<"x">> >>,
      << <<"v">>, <<"a">>, <<"x">> >> }

AppFolderUniverse == { << <<"w">>, <<"a">> >> }

InitApp ==
    /\ NoSwitchCalls
    /\ NoEnumeration
    /\ NoCallers
    /\ NoWrites
    /\ InstalledHost
    /\ settingsFile \in AppSettingsUniverse
    /\ filePath = WorkspacePath
    /\ sep = Slash
    /\ pcR = "ready"
    /\ bestMatch = NoMatch
    /\ result = Undefined
    /\ workspaceFolders \in FolderSetUniverse
    /\ folderConfig = OtherFolderConfig
    /\ activeEditor \in EditorUniverse
    /\ autoSwitch \in {"unset", "true", "false"}
    /\ config = "none"
    /\ lastEvent = NoEvent

NextApp ==
    \/ Activate
    \/ \E folders \in FolderSetUniverse : WorkspaceFoldersChange(folders)
    \/ \E editor \in EditorUniverse : ActiveEditorChange(editor)
    \/ \E value \in {"true", "false"} : SetAutoSwitch(value)
    \/ \E c \in Calls :
        \/ \E profileName \in OfferedProfiles : SelectProfileForWorkspace(c, profileName)
        \/ \E folderPath \in AppFolderUniverse, profileName \in OfferedProfiles :
              SelectProfileForFolder(c, folderPath, profileName)
        \/ LookupReturns(c)
        \/ InvokeApproach(c)
        \/ HostResolves(c)
        \/ HostRejects(c)
        \/ GraceElapsed(c)
        \/ AllApproachesFailed(c)
        \/ CallerResumes(c)

SpecApp == InitApp /\ [][NextApp]_vars

-----------------------------------------------------------------------------
(* Vocabulary of the resolver's properties, stated independently of the loop *)

\* p is a literal string prefix of s
IsLiteralPrefix(p, s) == \E n \in 0..Len(s) : p = SubSeq(s, 1, n)

\* a mapping key with a trailing '/' appended when absent
WithTrailingSlash(k) == IF Len(k) > 0 /\ k[Len(k)] = "/" THEN k ELSE k \o <<"/">>

\* the relative path of the file, '/'-separated and '/'-terminated
SlashRelative ==
    WithTrailingSlash(Join(RelativeSegments(WorkspacePath, filePath), "/"))

Entries == GetDirectoryProfiles(settingsFile)

MatchingEntries ==
    { i \in 1..Len(Entries) :
        IsLiteralPrefix(WithTrailingSlash(Entries[i].dirPath), SlashRelative) }

NoWorkspaceProfile == ~Truthy(GetWorkspaceProfile(settingsFile))

\* the file lies below the workspace root
InsideRoot ==
    /\ Len(filePath) > Len(WorkspacePath)
    /\ SubSeq(filePath, 1, Len(WorkspacePath)) = WorkspacePath

\* the relative path from the root to the file has a '..' segment
OutsideRoot ==
    \E i \in 1..Len(RelativeSegments(WorkspacePath, filePath)) :
        RelativeSegments(WorkspacePath, filePath)[i] = <<".", ".">>

-----------------------------------------------------------------------------
\* C1: whenever the workspace profile is set and non-empty, getProfileForPath
\* returns that workspace profile, whatever the mappings and the file are.
C1_WorkspaceProfileWins ==
    (pcR = "returned" /\ Truthy(GetWorkspaceProfile(settingsFile)))
        => result = GetWorkspaceProfile(settingsFile)

\* C2: with no workspace profile, the resolver returns the profile and the
\* normalized key of a matching entry of maximal normalized key length, and
\* NoMatch when no entry matches.
C2_LongestPrefixMatch ==
    (pcR = "returned" /\ NoWorkspaceProfile) =>
        IF MatchingEntries = {}
        THEN bestMatch = NoMatch /\ result = Undefined
        ELSE \E i \in MatchingEntries :
                /\ bestMatch = [path |-> WithTrailingSlash(Entries[i].dirPath),
                                profile |-> Entries[i].profile]
                /\ result = Entries[i].profile
                /\ \A j \in MatchingEntries :
                      Len(WithTrailingSlash(Entries[j].dirPath))
                          <= Len(WithTrailingSlash(Entries[i].dirPath))

C2_Witness ==
    /\ pcR = "returned"
    /\ NoWorkspaceProfile
    /\ Cardinality(MatchingEntries) = 2
    /\ Len(Entries) = 2
    /\ Len(WithTrailingSlash(Entries[1].dirPath)) > Len(WithTrailingSlash(Entries[2].dirPath))
    /\ Entries[1].profile # Entries[2].profile
    /\ result = Entries[1].profile

\* C3: with no workspace profile, an entry whose key is the empty string
\* matches every file inside the workspace root, so the result is never NoMatch.
C3_EmptyKeyCatchAll ==
    (/\ pcR = "returned"
     /\ NoWorkspaceProfile
     /\ InsideRoot
     /\ \E i \in 1..Len(Entries) : Entries[i].dirPath = <<>>)
        => result # Undefined

\* C8 (as stated): with no workspace profile, a file outside the workspace
\* root resolves to NoMatch for every set of directory mappings.
C8_OutsideNeverMatches ==
    (pcR = "returned" /\ NoWorkspaceProfile /\ OutsideRoot)
        => (result = Undefined /\ bestMatch = NoMatch)

\* C8 (amended): with no workspace profile, a file outside the workspace root
\* resolves to NoMatch for every set of directory mappings none of whose keys
\* begins with '..'.
C8_OutsideNoMatchUnlessDotDotKey ==
    (/\ pcR = "returned"
     /\ NoWorkspaceProfile
     /\ OutsideRoot
     /\ \A i \in 1..Len(Entries) : ~IsLiteralPrefix(<<".", ".">>, Entries[i].dirPath))
        => (result = Undefined /\ bestMatch = NoMatch)

C8_Witness ==
    /\ pcR = "returned"
    /\ NoWorkspaceProfile
    /\ OutsideRoot
    /\ Len(filePath) = 3
    /\ Len(Entries) = 2
    /\ \A i \in 1..Len(Entries) : ~IsLiteralPrefix(<<".", ".">>, Entries[i].dirPath)
    /\ \E i \in 1..Len(Entries) : Entries[i].dirPath = <<"a", "/">>
    /\ result = Undefined

-----------------------------------------------------------------------------
\* the mapping with the key of entry i written with a trailing slash
WithKeySlashed(entries, i) ==
    [entries EXCEPT ![i].dirPath = entries[i].dirPath \o <<"/">>]

\* entry i's key is a forward-slash key written without a trailing slash, and
\* writing it with one does not collide with another key of the mapping
SlashlessKey(entries, i) ==
    /\ ~(Len(entries[i].dirPath) > 0 /\ entries[i].dirPath[Len(entries[i].dirPath)] = "/")
    /\ \A k \in 1..Len(entries[i].dirPath) : entries[i].dirPath[k] # "\\"
    /\ \A j \in 1..Len(entries) : entries[j].dirPath # entries[i].dirPath \o <<"/">>

\* C9: the result is the same for a key written without a trailing slash as
\* for the same key written with one, and the same whether the relative path
\* is delivered with '/' or with '\' as separator.
C9_SeparatorNormalization ==
    pcR = "returned" =>
        /\ \A i \in 1..Len(Entries) :
              SlashlessKey(Entries, i) =>
                  FindBestMatch(WithKeySlashed(Entries, i),
                      NormalizeRelativePath(PathRelative(WorkspacePath, filePath, sep)),
                      1, NoMatch) = bestMatch
        /\ \A s \in {"/", "\\"} :
              /\ BestMatchForPath(settingsFile, WorkspacePath, filePath, s) = bestMatch
              /\ GetProfileForPath(settingsFile, WorkspacePath, filePath, s) = result

C9_Witness ==
    /\ pcR = "returned"
    /\ sep = "\\"
    /\ Len(filePath) = 4
    /\ InsideRoot
    /\ \E i \in 1..Len(Entries) :
          /\ Entries[i].dirPath = <<"a", "/", "b">>
          /\ SlashlessKey(Entries, i)
          /\ result = Entries[i].profile
          /\ bestMatch.path = <<"a", "/", "b", "/">>

-----------------------------------------------------------------------------
\* the entries visited in the order given by the permutation sigma
Permuted(entries, sigma) == [i \in 1..Len(entries) |-> entries[sigma[i]]]

ResolvePermuted(sigma) ==
    FindBestMatch(Permuted(Entries, sigma),
        NormalizeRelativePath(PathRelative(WorkspacePath, filePath, sep)), 1, NoMatch)

UniqueNormalizedKeys(entries) ==
    \A i, j \in 1..Len(entries) :
        i # j => WithTrailingSlash(entries[i].dirPath) # WithTrailingSlash(entries[j].dirPath)

\* C10 (as stated): for every mapping with unique keys, two matching entries
\* never have equal normalized key length and every visiting order of the
\* entries gives the same profile and matched path.
C10_OrderIrrelevant ==
    (pcR = "returned" /\ UniqueKeys(Entries)) =>
        /\ \A i, j \in MatchingEntries :
              i # j => Len(WithTrailingSlash(Entries[i].dirPath))
                          # Len(WithTrailingSlash(Entries[j].dirPath))
        /\ \A sigma \in Permutations(1..Len(Entries)) : ResolvePermuted(sigma) = bestMatch

\* C10 (amended): for every mapping whose keys are unique after normalization
\* (no key is another key plus a trailing slash), two matching entries never
\* have equal normalized key length and every visiting order of the entries
\* gives the same profile and matched path.
C10_OrderIrrelevantNormalizedKeys ==
    (pcR = "returned" /\ UniqueNormalizedKeys(Entries)) =>
        /\ \A i, j \in MatchingEntries :
              i # j => Len(WithTrailingSlash(Entries[i].dirPath))
                          # Len(WithTrailingSlash(Entries[j].dirPath))
        /\ \A sigma \in Permutations(1..Len(Entries)) : ResolvePermuted(sigma) = bestMatch

C10_Witness ==
    /\ pcR = "returned"
    /\ UniqueNormalizedKeys(Entries)
    /\ Len(Entries) = 2
    /\ Cardinality(MatchingEntries) = 2
    /\ Entries[1].profile # Entries[2].profile
    /\ Len(Entries[1].dirPath) > Len(Entries[2].dirPath)
    /\ bestMatch.profile = Entries[1].profile

-----------------------------------------------------------------------------
\* C4: the strategies are tried in list order and the call stops at the first
\* success: the k-th invocation of a call is its k-th strategy, and it is made
\* only after every earlier strategy was invoked and reported an error, so
\* nothing is invoked after a success.
C4_InOrderStopAtFirstSuccess ==
    \A c \in Calls :
        /\ Len(calls[c]) <= Len(approaches[c])
        /\ \A k \in 1..Len(calls[c]) :
              /\ calls[c][k].arg = approaches[c][k]
              /\ \A j \in 1..(k - 1) : calls[c][j].outcome = "err"

C4_Witness ==
    \E c \in Calls :
        /\ pc[c] = "done"
        /\ Len(approaches[c]) = 2
        /\ Len(calls[c]) = 1
        /\ calls[c][1].outcome = "ok"
        /\ ret[c] = "true"

\* C5: switchToProfile never raises: it ends with true or false, with false
\* exactly when every candidate strategy was invoked and raised an error, and
\* with true exactly when some candidate completed without error.
C5_NeverRaisesFailedIffAllFailed ==
    \A c \in Calls :
        pc[c] = "done" =>
            /\ ret[c] \in {"true", "false"}
            /\ ret[c] = "false" <=>
                  /\ Len(calls[c]) = Len(approaches[c])
                  /\ \A k \in 1..Len(calls[c]) : calls[c][k].outcome = "err"
            /\ ret[c] = "true" <=>
                  \E k \in 1..Len(calls[c]) : calls[c][k].outcome = "ok"

C5_Witness ==
    \E c \in Calls :
        /\ pc[c] = "done"
        /\ ret[c] = "false"
        /\ Len(approaches[c]) = 2
        /\ Len(calls[c]) = 2
        /\ target[c] # DefaultName
        /\ \A k \in 1..2 : calls[c][k].outcome = "err"

\* C6: the candidate list is [empty identifier, "Default"] for the target
\* "Default"; for any other target it is [resolved identifier, raw name] when
\* the lookup resolved an identifier and [raw name] when it did not.
C6_CandidateList ==
    \A c \in Calls :
        pc[c] \notin {"idle", "lookup"} =>
            /\ target[c] = <<"D", "e", "f", "a", "u", "l", "t">>
                  => approaches[c] = << <<>>, <<"D", "e", "f", "a", "u", "l", "t">> >>
            /\ (target[c] # <<"D", "e", "f", "a", "u", "l", "t">> /\ profileId[c] # Null)
                  => approaches[c] = <<profileId[c], target[c]>>
            /\ (target[c] # <<"D", "e", "f", "a", "u", "l", "t">> /\ profileId[c] = Null)
                  => approaches[c] = <<target[c]>>
            /\ target[c] # <<"D", "e", "f", "a", "u", "l", "t">>
                  => approaches[c][Len(approaches[c])] = target[c]

C6_Witness ==
    \E c \in Calls :
        /\ pc[c] = "done"
        /\ target[c] = <<"W">>
        /\ profileId[c] = <<"i", "1">>
        /\ Len(calls[c]) = 2
        /\ calls[c][1].arg = <<"i", "1">>
        /\ calls[c][2].arg = <<"W">>

-----------------------------------------------------------------------------
\* a <= b in the lexicographic order of the code units
LexLeq(a, b) ==
    \/ \E n \in 0..Len(b) : a = SubSeq(b, 1, n)
    \/ \E k \in 1..Len(a) :
          /\ k <= Len(b)
          /\ SubSeq(a, 1, k - 1) = SubSeq(b, 1, k - 1)
          /\ CharCode(a[k]) < CharCode(b[k])

\* C7: whatever the state of the user data path, the registry and the profiles
\* directory, getAvailableProfiles does not raise and returns a non-empty list
\* that contains "Default" and is in lexicographic order.
C7_EnumerationHasDefaultSorted ==
    pcE = "returned" =>
        /\ ~enumResult.threw
        /\ Len(enumResult.value) > 0
        /\ \E k \in 1..Len(enumResult.value) :
              enumResult.value[k] = <<"D", "e", "f", "a", "u", "l", "t">>
        /\ \A i, j \in 1..Len(enumResult.value) :
              i < j => LexLeq(enumResult.value[i], enumResult.value[j])

C7_Witness ==
    /\ pcE = "returned"
    /\ profilesDir.state = "ok"
    /\ enumResult.value = << <<"A">>, <<"D", "e", "f", "a", "u", "l", "t">>, <<"W">> >>

-----------------------------------------------------------------------------
\* the invocations of call c that are in flight
InFlight(c) == { k \in 1..Len(calls[c]) : calls[c][k].outcome = "pending" }

\* C15: within one call the attempts are strictly sequential: a host
\* invocation starts only when no invocation of that call is in flight and
\* every earlier invocation of the call has completed with an error, so at
\* most one is in flight at any time.
C15_StrictlySequential ==
    [][\A c \in Calls :
          Len(calls'[c]) > Len(calls[c]) =>
              /\ Len(calls'[c]) = Len(calls[c]) + 1
              /\ InFlight(c) = {}
              /\ \A k \in 1..Len(calls[c]) : calls[c][k].outcome = "err"
              /\ Cardinality({ k \in 1..Len(calls'[c]) : calls'[c][k].outcome = "pending" }) = 1]_vars

C15_Witness ==
    \E c \in Calls :
        /\ pc[c] = "await"
        /\ Len(calls[c]) = 2
        /\ calls[c][1].outcome = "err"
        /\ InFlight(c) = {2}

-----------------------------------------------------------------------------
\* some registry entry carries the name
RegisteredName(name) ==
    /\ userDataPath # Null
    /\ storageJson.state = "ok"
    /\ \E k \in 1..Len(storageJson.userDataProfiles) :
          /\ storageJson.userDataProfiles[k].name = name
          /\ storageJson.userDataProfiles[k].location # <<>>

\* the name is the name of an entry of the profiles directory
ProfileDirectoryEntry(name) ==
    /\ userDataPath # Null
    /\ profilesDir.state # "missing"
    /\ \E k \in 1..Len(profilesDir.entries) : profilesDir.entries[k].name = name

DistinctArguments(c) ==
    \A j, k \in 1..Len(calls[c]) : j # k => calls[c][j].arg # calls[c][k].arg

\* C16 (as stated): for every non-Default name that no registry entry carries
\* the lookup yields null, the candidate list is the raw name alone and the
\* host is never invoked twice with the same argument.
C16_UnknownNameYieldsNull ==
    \A c \in Calls :
        (/\ pc[c] \notin {"idle", "lookup"}
         /\ target[c] # <<"D", "e", "f", "a", "u", "l", "t">>
         /\ ~RegisteredName(target[c]))
            => /\ profileId[c] = Null
               /\ approaches[c] = <<target[c]>>
               /\ DistinctArguments(c)

\* C16 (amended): for every non-Default name that no registry entry carries
\* and that is not the name of an entry of the profiles directory, the lookup
\* yields null, the candidate list is the raw name alone and the host is never
\* invoked twice with the same argument.
C16_UnknownNameNotDirectoryYieldsNull ==
    \A c \in Calls :
        (/\ pc[c] \notin {"idle", "lookup"}
         /\ target[c] # <<"D", "e", "f", "a", "u", "l", "t">>
         /\ ~RegisteredName(target[c])
         /\ ~ProfileDirectoryEntry(target[c]))
            => /\ profileId[c] = Null
               /\ approaches[c] = <<target[c]>>
               /\ DistinctArguments(c)

C16_Witness ==
    \E c \in Calls :
        /\ pc[c] = "done"
        /\ target[c] = <<"i", "1">>
        /\ userDataPath # Null
        /\ profilesDir.state = "ok"
        /\ ~RegisteredName(target[c])
        /\ ~ProfileDirectoryEntry(target[c])
        /\ profileId[c] = Null
        /\ Len(calls[c]) = 1
        /\ ret[c] = "false"

-----------------------------------------------------------------------------
\* C17: when the settings file is missing or cannot be parsed,
\* getWorkspaceProfile yields no profile, getDirectoryProfiles yields the
\* empty mapping and resolution yields NoMatch.
C17_ReadFailureMeansNoMapping ==
    (pcR = "returned" /\ settingsFile.state \in {"missing", "malformed"}) =>
        /\ GetWorkspaceProfile(settingsFile) = Undefined
        /\ GetDirectoryProfiles(settingsFile) = <<>>
        /\ bestMatch = NoMatch
        /\ result = Undefined

C17_Witness ==
    /\ pcR = "returned"
    /\ settingsFile.state = "malformed"
    /\ settingsFile.workspaceProfile = <<"W">>
    /\ \E i \in 1..Len(settingsFile.directoryProfiles) :
          IsLiteralPrefix(WithTrailingSlash(settingsFile.directoryProfiles[i].dirPath),
                          SlashRelative)
    /\ result = Undefined

-----------------------------------------------------------------------------
\* the file lies in the folder
LocatedIn(file, folder) ==
    Len(file) > Len(folder) /\ SubSeq(file, 1, Len(folder)) = folder

\* C19: once the folder command has stored a profile for a folder of the
\* workspace (the workspace folder itself included), with no workspace
\* profile set, resolving a file located in that folder never yields NoMatch.
C19_StoreThenResolve ==
    [][(pcR = "ready" /\ pcR' = "returned" /\ ~Truthy(GetWorkspaceProfile(settingsFile))) =>
          \A k \in 1..Len(writes) :
              (writes[k].kind = "directoryProfile"
                 /\ writes[k].folder # Undefined
                 /\ LocatedIn(filePath, writes[k].folder))
                  => result' # Undefined]_vars

-----------------------------------------------------------------------------
\* the settings the file's text holds
HeldSettings(file) ==
    [workspaceProfile |-> file.workspaceProfile,
     directoryProfiles |-> { file.directoryProfiles[k] : k \in 1..Len(file.directoryProfiles) },
     other |-> file.other]

\* C20: a write changes only what it is asked to change, whatever the prior
\* content of the file, unparsable content included: updateWorkspaceProfile
\* keeps the other key and the whole mapping, updateDirectoryProfile keeps the
\* other key, the workspace profile and every entry for another path.
C20_WritersChangeOnlyTheirKey ==
    [][Len(writes') > Len(writes) =>
          LET w == writes'[Len(writes')]
              before == HeldSettings(settingsFile)
              after == HeldSettings(settingsFile')
          IN  /\ after.other = before.other
              /\ w.kind = "workspaceProfile" =>
                    after.directoryProfiles = before.directoryProfiles
              /\ w.kind = "directoryProfile" =>
                    /\ after.workspaceProfile = before.workspaceProfile
                    /\ { e \in after.directoryProfiles : e.dirPath # WithTrailingSlash(w.path) }
                          = { e \in before.directoryProfiles : e.dirPath # WithTrailingSlash(w.path) }]_vars

-----------------------------------------------------------------------------
(* Vocabulary of the events' properties *)

\* the step fires an event
EventFires == lastEvent'.seq > lastEvent.seq

\* the profile the handler of the last event called switchToProfile with
AppliedProfile == IF lastEvent.call = 0 THEN Undefined ELSE target[lastEvent.call]

\* the workspace folder that holds the active file
ActiveFolder == IF activeEditor = NoEditor THEN Undefined
                ELSE GetWorkspaceFolder(workspaceFolders, activeEditor)

WorkspaceProfileOf(root) ==
    ConfigurationOf(folderConfig, settingsFile, root).workspaceProfile

\* the directory-level profile of the active file: the profile of the longest
\* mapping key of its folder that is a prefix of its relative path
DirectoryLevelProfile ==
    IF ActiveFolder = Undefined THEN Undefined
    ELSE LET entries == ConfigurationOf(folderConfig, settingsFile, ActiveFolder).directoryProfiles
             relative == WithTrailingSlash(Join(RelativeSegments(ActiveFolder, activeEditor), "/"))
             matching == { i \in 1..Len(entries) :
                             IsLiteralPrefix(WithTrailingSlash(entries[i].dirPath), relative) }
         IN  IF matching = {} THEN Undefined
             ELSE entries[CHOOSE i \in matching : \A j \in matching :
                            Len(WithTrailingSlash(entries[i].dirPath))
                                >= Len(WithTrailingSlash(entries[j].dirPath))].profile

\* what the resolver of the specification yields for the active file: the
\* workspace profile of its folder, else its directory-level profile
ResolvedProfile ==
    IF ActiveFolder # Undefined /\ Truthy(WorkspaceProfileOf(ActiveFolder))
    THEN WorkspaceProfileOf(ActiveFolder)
    ELSE DirectoryLevelProfile

\* the workspace profile of the first workspace folder that has one
FirstWorkspaceProfile ==
    LET withProfile == { k \in 1..Len(workspaceFolders) :
                            Truthy(WorkspaceProfileOf(workspaceFolders[k])) }
    IN  IF withProfile = {} THEN Undefined
        ELSE WorkspaceProfileOf(workspaceFolders[CHOOSE k \in withProfile :
                                                    \A j \in withProfile : k <= j])

\* C11: an event that fires while autoSwitch is false starts no switch, and
\* an event that fires while it is true or unset runs its apply routine.
C11_AutoSwitchControlsEvents ==
    [][EventFires =>
          /\ autoSwitch = "false" => (~lastEvent'.ran /\ lastEvent'.call = 0)
          /\ autoSwitch # "false" => lastEvent'.ran]_vars

FailedTo(c) == caller[c] # "none" /\ ret[c] = "false" /\ prompt[c] # "none"

\* C13: every caller that gets false from switchToProfile shows a warning
\* that offers an action.
C13_FailureAlwaysPrompted ==
    \A c \in Calls :
        FailedTo(c) => prompt[c] \in {"warning: Switch Profile", "warning: Reload Window"}

\* C13 as amended: on false the startup routine warns and offers 'Switch
\* Profile', the two commands warn and offer 'Reload Window', and the
\* active-file routine shows nothing.
C13_FailurePromptedExceptActiveFile ==
    \A c \in Calls :
        FailedTo(c) =>
            /\ caller[c] \in {"startupWorkspace", "startupDirectory"} =>
                  prompt[c] = "warning: Switch Profile"
            /\ caller[c] \in {"selectWorkspace", "selectFolder"} =>
                  prompt[c] = "warning: Reload Window"
            /\ caller[c] = "activeFile" => prompt[c] = "silent"

C13_Witness ==
    \E c, d \in Calls :
        /\ FailedTo(c)
        /\ caller[c] \in {"startupWorkspace", "startupDirectory"}
        /\ prompt[c] = "warning: Switch Profile"
        /\ FailedTo(d)
        /\ caller[d] = "activeFile"
        /\ prompt[d] = "silent"

\* C14: a run of the startup routine with the active file in a folder that
\* has no workspace profile and has a matching mapping applies that folder's
\* directory-level profile, whatever the other folders hold; and a run starts
\* at most one switch.
C14_WorkspaceProfileScopedToRoot ==
    [][(EventFires /\ lastEvent'.ran /\ lastEvent'.kind \in {"startup", "folders"}) =>
          /\ Cardinality({ c \in Calls : pc[c] = "idle" /\ pc'[c] # "idle" }) <= 1
          /\ (ActiveFolder' # Undefined
                /\ ~Truthy(WorkspaceProfileOf(ActiveFolder)')
                /\ DirectoryLevelProfile' # Undefined) =>
                    AppliedProfile' = DirectoryLevelProfile']_vars

\* C18: when two event-triggered calls have both ended and the later one had
\* an invocation complete without error, the invocation that completed
\* without error last was issued by the later call.
C18_LastSwitchIsLatestEvent ==
    \A c, d \in Calls :
        (/\ c < d
         /\ caller[c] \in {"startupWorkspace", "startupDirectory", "activeFile"}
         /\ caller[d] \in {"startupWorkspace", "startupDirectory", "activeFile"}
         /\ target[c] # target[d]
         /\ pc[c] = "done"
         /\ pc[d] = "done"
         /\ \E k \in 1..Len(calls[d]) : calls[d][k].outcome = "ok")
            => lastSwitch.call # c

====
